---------------------------- MODULE Spec2Model ----------------------------
(***************************************************************************)
(* The EHLO exchange of new-tokio-smtp (src/src/command/ehlo.rs): the      *)
(* capability-response parser parse_ehlo_response and the command          *)
(* execution Ehlo::exec, which writes the request, flushes, reads the      *)
(* reply, parses it and commits the EhloData into the connection.          *)
(*                                                                         *)
(* Text is a sequence of one-character strings, so that splitting on " "   *)
(* and "=" and the case-insensitive comparison of keywords are computed    *)
(* character by character, as the code does.                               *)
(***************************************************************************)
EXTENDS Integers, Sequences, FiniteSets

VARIABLES
    ehlo_data,      \* Io: the session's capability state, None or Some(EhloData)
    io_owner,       \* who holds the Io handle: "caller", "exec" or "dropped"
    pc,             \* position of the exec future: "idle", "flush", "read"
    out_buffer,     \* Io: bytes written to the outgoing buffer, not yet flushed
    wire,           \* bytes the flush has put on the transport
    outcome,        \* what the last exec future resolved to
    trace,          \* the steps the current (or last) exec has performed, in order
    history,        \* the replies read on this connection, oldest first
    seen_caps,      \* the capability state the current command found when it started
    cmd,            \* the Ehlo value the caller holds, None or Some(Ehlo)
    avail,          \* what check_cmd_availability returned for that value, and for which state
    exec_calls,     \* the Ehlo values exec was called on, oldest first
    in_flight,      \* number of exec futures created and neither resolved nor dropped
    reserved,       \* the byte count the last exec asked the outgoing buffer for
    p_resp,         \* parser run: the Response given to parse_ehlo_response
    p_result        \* parser run: what parse_ehlo_response returned

vars == <<ehlo_data, io_owner, pc, out_buffer, wire, outcome, trace, history,
          seen_caps, cmd, avail, exec_calls, in_flight, reserved, p_resp, p_result>>

execVars == <<ehlo_data, io_owner, pc, out_buffer, wire, outcome, trace, history,
              seen_caps, cmd, avail, exec_calls, in_flight, reserved>>

\* What the caller holds besides the connection
callerVars == <<cmd, avail>>

parseVars == <<p_resp, p_result>>

---------------------------------------------------------------------------
(* Bounds of the model *)

\* Total number of tokens on the lines after the first, over a generated reply
MaxTokens == 3

\* Number of EHLO exchanges started on the one connection
MaxExchanges == 3

---------------------------------------------------------------------------
(* Results *)

Ok(v) == [tag |-> "Ok", val |-> v]

Err(e) == [tag |-> "Err", err |-> e]

\* lines.first().expect(..) on a response with no line: the thread panics
Panic == [tag |-> "Panic"]

None == [tag |-> "None"]

Some(v) == [tag |-> "Some", val |-> v]

---------------------------------------------------------------------------
(* Text *)

LowerCase == <<"a","b","c","d","e","f","g","h","i","j","k","l","m",
               "n","o","p","q","r","s","t","u","v","w","x","y","z">>

UpperCase == <<"A","B","C","D","E","F","G","H","I","J","K","L","M",
               "N","O","P","Q","R","S","T","U","V","W","X","Y","Z">>

Digits == {"0","1","2","3","4","5","6","7","8","9"}

Range(s) == {s[i] : i \in DOMAIN s}

IsLower(c) == c \in Range(LowerCase)

IsUpper(c) == c \in Range(UpperCase)

IsAlnum(c) == IsLower(c) \/ IsUpper(c) \/ c \in Digits

ToUpperChar(c) ==
    IF IsLower(c)
    THEN UpperCase[CHOOSE i \in DOMAIN LowerCase : LowerCase[i] = c]
    ELSE c

ToUpper(s) == [i \in DOMAIN s |-> ToUpperChar(s[i])]

\* Printable ASCII other than letters and digits (%d33-126), as far as the model uses it
Punctuation == {"=", "-", ".", "_", "[", "]", ":", "+", "@", "!"}

IsVisible(c) == IsAlnum(c) \/ c \in Punctuation

\* The non-empty pieces of s between the separators
RECURSIVE NonEmptyPieces(_, _)
NonEmptyPieces(s, sep) ==
    IF \A i \in DOMAIN s : s[i] # sep
    THEN IF s = <<>> THEN <<>> ELSE <<s>>
    ELSE LET i == CHOOSE k \in DOMAIN s :
                      s[k] = sep /\ \A j \in 1..(k - 1) : s[j] # sep
         IN  (IF i = 1 THEN <<>> ELSE <<SubSeq(s, 1, i - 1)>>)
                 \o NonEmptyPieces(SubSeq(s, i + 1, Len(s)), sep)

\* Split with the slip of skipping empty pieces, as split_whitespace does
\* (one empty piece when there is no other)
Split_skips_empty(s, sep) ==
    IF NonEmptyPieces(s, sep) = <<>> THEN << <<>> >> ELSE NonEmptyPieces(s, sep)

\* str::split(sep): the pieces between the separators, empty pieces included;
\* a text without the separator is one piece
RECURSIVE Split(_, _)
Split(s, sep) ==
    IF \A i \in DOMAIN s : s[i] # sep
    THEN <<s>>
    ELSE LET i == CHOOSE k \in DOMAIN s :
                      s[k] = sep /\ \A j \in 1..(k - 1) : s[j] # sep
         IN  <<SubSeq(s, 1, i - 1)>> \o Split(SubSeq(s, i + 1, Len(s)), sep)

---------------------------------------------------------------------------
(* Grammar types: Domain, Capability, EhloParam *)

\* Domain::from_str: a host name of letters, digits, hyphens and dots
Domain_parse(s) ==
    IF s # <<>> /\ \A i \in DOMAIN s : IsAlnum(s[i]) \/ s[i] \in {"-", "."}
    THEN Ok(s)
    ELSE Err("Domain")

\* Capability::from_str: an ESMTP keyword of letters, digits and hyphens that
\* starts with a letter or digit. Capabilities are equal when their keywords
\* are equal ignoring case: a Capability is held as its upper-case keyword.
Capability_from_str(s) ==
    IF /\ s # <<>>
       /\ IsAlnum(s[1])
       /\ \A i \in DOMAIN s : IsAlnum(s[i]) \/ s[i] = "-"
    THEN Ok(ToUpper(s))
    ELSE Err("EsmtpKeyword")

\* EhloParam::from_str: one or more visible characters
EhloParam_parse(s) ==
    IF s # <<>> /\ \A i \in DOMAIN s : IsVisible(s[i])
    THEN Ok(s)
    ELSE Err("EsmtpValue")

\* The keyword "AUTH" of the compatibility rule
AUTH == <<"A", "U", "T", "H">>

---------------------------------------------------------------------------
(* EhloData and the capability map *)

\* HashMap::new()
EmptyCaps == <<>>

\* Insert with the slip of keeping the entry already there (entry().or_insert)
Insert_keeps_first(caps, capability, params) ==
    [k \in (DOMAIN caps) \cup {capability} |->
        IF k \in DOMAIN caps THEN caps[k] ELSE params]

\* HashMap::insert: the entry of an equal key is replaced
Insert(caps, capability, params) ==
    [k \in (DOMAIN caps) \cup {capability} |->
        IF k = capability THEN params ELSE caps[k]]

\* EhloData::new(domain, caps)
EhloData_new(domain, caps) == [domain |-> domain, caps |-> caps]

---------------------------------------------------------------------------
(* parse_ehlo_response *)

\* collect_params with the slip of building the list back to front
RECURSIVE collect_params_reversed(_)
collect_params_reversed(parts) ==
    IF parts = <<>>
    THEN Ok(<<>>)
    ELSE LET p == EhloParam_parse(Head(parts))
         IN  IF p.tag = "Err"
             THEN p
             ELSE LET rest == collect_params_reversed(Tail(parts))
                  IN  IF rest.tag = "Err" THEN rest
                      ELSE Ok(rest.val \o <<p.val>>)

\* parts.map(|part| part.parse()).collect::<Result<Vec<EhloParam>, _>>():
\* the parameters in order, or the error of the first token that fails
RECURSIVE collect_params(_)
collect_params(parts) ==
    IF parts = <<>>
    THEN Ok(<<>>)
    ELSE LET p == EhloParam_parse(Head(parts))
         IN  IF p.tag = "Err"
             THEN p
             ELSE LET rest == collect_params(Tail(parts))
                  IN  IF rest.tag = "Err" THEN rest
                      ELSE Ok(<<p.val>> \o rest.val)

\* is_broken_auth with the slip of comparing the text, not the Capability
is_broken_auth_case_sensitive(capability_candidate) ==
    Head(Split(capability_candidate, "=")) = AUTH

\* is_broken_auth with the slip of tolerating every keyword that holds "="
is_broken_auth_any_keyword(capability_candidate) ==
    Len(Split(capability_candidate, "=")) > 1

\* The test of the compatibility rule: the text before the first "=" of the
\* candidate is the capability AUTH
is_broken_auth(capability_candidate) ==
    Capability_from_str(Head(Split(capability_candidate, "=")))
        = Ok(Capability_from_str(AUTH).val)

\* parse_line with the slip of parsing the parameters before the keyword
parse_line_params_first(line, caps) ==
    LET parts == Split(line, " ")
        capability_candidate == Head(parts)
        capability == Capability_from_str(capability_candidate)
        params == collect_params(Tail(parts))
    IN  IF params.tag = "Err"
        THEN params
        ELSE IF capability.tag = "Err"
        THEN IF capability.err = "EsmtpKeyword"
                  /\ is_broken_auth(capability_candidate)
             THEN Ok(caps)
             ELSE capability
        ELSE Ok(Insert(caps, capability.val, params.val))

\* The body of the loop over lines[1..] for one line, with the map built so
\* far: the map after the line, or the error that ends the parse
parse_line(line, caps) ==
    LET parts == Split(line, " ")
        capability_candidate == Head(parts)
        capability == Capability_from_str(capability_candidate)
    IN  IF capability.tag = "Err"
        THEN IF capability.err = "EsmtpKeyword"
                  /\ is_broken_auth(capability_candidate)
             THEN Ok(caps)
             ELSE capability
        ELSE LET params == collect_params(Tail(parts))
             IN  IF params.tag = "Err"
                 THEN params
                 ELSE Ok(Insert(caps, capability.val, params.val))

\* for line in lines[1..].iter() { .. }
RECURSIVE parse_lines(_, _)
parse_lines(lines, caps) ==
    IF lines = <<>>
    THEN Ok(caps)
    ELSE LET r == parse_line(Head(lines), caps)
         IN  IF r.tag = "Err" THEN r ELSE parse_lines(Tail(lines), r.val)

\* domain_token with the slip of taking the whole first line
domain_token_whole_line(first) == first

\* first.split(" ").next().unwrap(): the first line up to its first space
domain_token(first) == Head(Split(first, " "))

\* parse_ehlo_response with the slip of taking a missing first line for an
\* empty one (first().unwrap_or_default() in place of expect)
parse_ehlo_response_no_line_as_empty(response) ==
    LET lines == response.msg
        first == IF lines = <<>> THEN <<>> ELSE Head(lines)
        rest == IF lines = <<>> THEN <<>> ELSE Tail(lines)
        domain == Domain_parse(domain_token(first))
    IN  IF domain.tag = "Err"
        THEN domain
        ELSE LET caps == parse_lines(rest, EmptyCaps)
             IN  IF caps.tag = "Err"
                 THEN caps
                 ELSE Ok(EhloData_new(domain.val, caps.val))

parse_ehlo_response(response) ==
    LET lines == response.msg
    IN  IF lines = <<>>
        THEN Panic
        ELSE LET domain == Domain_parse(domain_token(Head(lines)))
             IN  IF domain.tag = "Err"
                 THEN domain
                 ELSE LET caps == parse_lines(Tail(lines), EmptyCaps)
                      IN  IF caps.tag = "Err"
                          THEN caps
                          ELSE Ok(EhloData_new(domain.val, caps.val))

---------------------------------------------------------------------------
(* Io: the connection, as Ehlo::exec uses it *)

\* io.out_buffer(n) followed by put: the bytes are appended to the buffer
Io_put(buffer, bytes) == buffer \o bytes

\* Io::flush, completed: the buffered bytes are on the transport
Io_flush(buffer, sent) == [out_buffer |-> <<>>, wire |-> sent \o buffer]

\* Io::parse_response, completed: a success reply in the Ok branch, a failure
\* reply in the Err branch
Io_parse_response(reply) ==
    IF reply.code = "success"
    THEN [tag |-> "Ok", val |-> reply]
    ELSE [tag |-> "Err", val |-> reply]

\* Io::set_ehlo_data: the session's capability state is replaced
Io_set_ehlo_data(caps, ehlo) == Some(ehlo)

---------------------------------------------------------------------------
(* Ehlo::exec *)

\* What the exec future resolves to
NoOutcome == [tag |-> "NoOutcome"]

\* Ok((io, Ok(response))) and Ok((io, Err(response)))
Reply(branch, response) == [tag |-> "Reply", branch |-> branch, response |-> response]

\* Err(std_io::Error): of the flush or the read ("io"), or the parser's
\* SyntaxError wrapped as ErrorKind::Other
Fatal(err) == [tag |-> "Fatal", err |-> err]

\* The future was dropped before it resolved
Abandoned == [tag |-> "Abandoned"]

\* The parser panicked inside the future
Panicked == [tag |-> "Panicked"]

\* ClientId::Domain / ClientId::AddressLiteral
ClientId(kind, text) == [kind |-> kind, text |-> text]

\* Ehlo::new(identity); id tells the values apart (the n-th value made)
Ehlo_new(identity, id) == [identity |-> identity, id |-> id]

\* The result of check_cmd_availability, none yet
NotChecked == [tag |-> "NotChecked"]

\* check_cmd_availability with the slip of asking for a greeted session
check_cmd_availability_needs_greeting(self, caps) ==
    IF caps = None THEN Err("MissingCapabilities") ELSE Ok(<<>>)

\* check_cmd_availability(&self, _caps): Ok(()) whatever the capabilities
check_cmd_availability(self, caps) == Ok(<<>>)

\* 7 == "EHLO ".len() + "\r\n".len()
ReserveOverhead == 7

\* str_me: the wire text of the identity
str_me(identity) ==
    IF identity.kind = "Domain" THEN identity.text ELSE identity.text

EHLO_SP == <<"E", "H", "L", "O", " ">>

CRLF == <<"\r", "\n">>

\* request_bytes with the slip of leaving out the line end
request_bytes_without_crlf(identity) == EHLO_SP \o str_me(identity)

\* The three put calls of exec
request_bytes(identity) == EHLO_SP \o str_me(identity) \o CRLF

\* The argument of io.out_buffer(..)
reserve_len(identity) == ReserveOverhead + Len(str_me(identity))

\* on_reply with the slip of running the parser whatever the reply's class
on_reply_ignores_class(caps, result) ==
    LET response == result.val
        ehlo == parse_ehlo_response(response)
    IN  IF ehlo.tag = "Ok"
        THEN [caps |-> Io_set_ehlo_data(caps, ehlo.val), io |-> "caller",
              outcome |-> Reply("Ok", response), steps |-> <<"parse", "commit">>]
        ELSE [caps |-> caps, io |-> "dropped",
              outcome |-> Fatal(ehlo.err), steps |-> <<"parse">>]

\* on_reply with the slip of leaving out io.set_ehlo_data(ehlo)
on_reply_no_commit(caps, result) ==
    LET response == result.val
    IN  IF result.tag = "Err"
        THEN [caps |-> caps, io |-> "caller",
              outcome |-> Reply("Err", response), steps |-> <<>>]
        ELSE LET ehlo == parse_ehlo_response(response)
             IN  IF ehlo.tag = "Err"
                 THEN [caps |-> caps, io |-> "dropped",
                       outcome |-> Fatal(ehlo.err), steps |-> <<"parse">>]
                 ELSE [caps |-> caps, io |-> "caller",
                       outcome |-> Reply("Ok", response), steps |-> <<"parse">>]

\* on_reply with the slip of returning a failure reply in the success branch
on_reply_failure_as_success(caps, result) ==
    LET response == result.val
    IN  IF result.tag = "Err"
        THEN [caps |-> caps, io |-> "caller",
              outcome |-> Reply("Ok", response), steps |-> <<>>]
        ELSE LET ehlo == parse_ehlo_response(response)
             IN  IF ehlo.tag = "Err"
                 THEN [caps |-> caps, io |-> "dropped",
                       outcome |-> Fatal(ehlo.err), steps |-> <<"parse">>]
                 ELSE [caps |-> Io_set_ehlo_data(caps, ehlo.val), io |-> "caller",
                       outcome |-> Reply("Ok", response),
                       steps |-> <<"parse", "commit">>]

\* on_reply with the slip of handing the reply back when the parser fails
\* (the error dropped in place of ?)
on_reply_swallows_syntax_error(caps, result) ==
    LET response == result.val
    IN  IF result.tag = "Err"
        THEN [caps |-> caps, io |-> "caller",
              outcome |-> Reply("Err", response), steps |-> <<>>]
        ELSE LET ehlo == parse_ehlo_response(response)
             IN  IF ehlo.tag = "Err"
                 THEN [caps |-> caps, io |-> "caller",
                       outcome |-> Reply("Ok", response), steps |-> <<"parse">>]
                 ELSE [caps |-> Io_set_ehlo_data(caps, ehlo.val), io |-> "caller",
                       outcome |-> Reply("Ok", response),
                       steps |-> <<"parse", "commit">>]

\* The closure given to the last and_then, applied to (io, result): the
\* capability state of io afterwards, where the Io handle goes, what the
\* future resolves to, and the steps taken in their order
on_reply(caps, result) ==
    LET response == result.val
    IN  IF result.tag = "Err"
        THEN [caps |-> caps, io |-> "caller",
              outcome |-> Reply("Err", response), steps |-> <<>>]
        ELSE LET ehlo == parse_ehlo_response(response)
             IN  IF ehlo.tag = "Err"
                 THEN [caps |-> caps, io |-> "dropped",
                       outcome |-> Fatal(ehlo.err), steps |-> <<"parse">>]
                 ELSE IF ehlo.tag = "Panic"
                 THEN [caps |-> caps, io |-> "dropped",
                       outcome |-> Panicked, steps |-> <<"parse">>]
                 ELSE [caps |-> Io_set_ehlo_data(caps, ehlo.val), io |-> "caller",
                       outcome |-> Reply("Ok", response),
                       steps |-> <<"parse", "commit">>]

---------------------------------------------------------------------------
(* The replies given to the parser *)

Sp == <<" ">>

\* A character outside the visible range: no EhloParam holds it
Tab == <<"\t">>

\* First tokens of a capability line: well-formed keywords (two of them equal
\* ignoring case), the malformed AUTH=.. duplicate in two spellings,
\* malformed keywords that are not AUTH, with and without "=", and the
\* empty token of an empty line or of a line that starts with a space
KeywordTokens ==
    { <<>>,
      AUTH,
      <<"a", "u", "t", "h">>,
      <<"X">>,
      AUTH \o <<"=", "P">>,
      <<"A", "u", "t", "h", "=", "p">>,
      <<"X", "=", "E">>,
      <<"X", "_">> }

\* Parameter tokens: two valid ones, one that violates the value grammar,
\* and the empty token of a trailing space or of two spaces in a row
ParamTokens == { <<"P">>, <<"L">>, Tab, <<>> }

\* First lines: a domain alone, domains followed by a greeting, an invalid domain
FirstLines ==
    { <<"d", ".", "t">>,
      <<"d", ".", "t">> \o Sp \o <<"h", "i">>,
      <<"e">> \o Sp \o <<"h", "i">> \o Sp \o <<"y", "o">>,
      <<"d", "_", "t">> \o Sp \o <<"h", "i">> }

\* The sequences of n parameter tokens, each preceded by a space
RECURSIVE ParamTails(_)
ParamTails(n) ==
    IF n = 0 THEN {<<>>}
    ELSE {Sp \o p \o rest : p \in ParamTokens, rest \in ParamTails(n - 1)}

\* The capability lines of exactly n tokens
LinesOf(n) == {k \o ps : k \in KeywordTokens, ps \in ParamTails(n - 1)}

\* The sequences of capability lines that hold at most t tokens together
RECURSIVE Bodies(_)
Bodies(t) ==
    {<<>>} \cup
    UNION { {<<l>> \o rest : l \in LinesOf(n), rest \in Bodies(t - n)} : n \in 1..t }

Response_new(code, msg) == [code |-> code, msg |-> msg]

\* The replies the parser is run on; the reply of no line is one of them
ParseInputs ==
    {Response_new("success", <<>>)} \cup
    {Response_new("success", <<f>> \o b) : f \in FirstLines, b \in Bodies(MaxTokens)}

NotRun == [tag |-> "NotRun"]

---------------------------------------------------------------------------
(* The state of a connection before any command *)

ExecIdle ==
    /\ ehlo_data = None
    /\ io_owner = "caller"
    /\ pc = "idle"
    /\ out_buffer = <<>>
    /\ wire = <<>>
    /\ outcome = [tag |-> "NoOutcome"]
    /\ trace = <<>>
    /\ history = <<>>
    /\ seen_caps = None
    /\ cmd = None
    /\ avail = NotChecked
    /\ exec_calls = <<>>
    /\ in_flight = 0
    /\ reserved = 0

---------------------------------------------------------------------------
(* The parser applied to one reply *)

ParseInit ==
    /\ ExecIdle
    /\ p_resp \in ParseInputs
    /\ p_result = NotRun

ParseRun ==
    /\ p_result = NotRun
    /\ p_result' = parse_ehlo_response(p_resp)
    /\ UNCHANGED <<p_resp, execVars>>

ParseNext == ParseRun

ParseSpec == ParseInit /\ [][ParseNext]_vars

---------------------------------------------------------------------------
(* The exchanges on one connection *)

DT == <<"d", ".", "t">>

HI == <<"h", "i">>

\* The identities an Ehlo command is built with
ClientIds ==
    { ClientId("Domain", <<"m", ".", "t">>),
      ClientId("AddressLiteral", <<"[", "1", ":", ":", "1", "]">>) }

\* The replies the server sends to EHLO: the replies of the tests of
\* parse_ehlo_response with shorter words, a reply that drops a capability
\* an earlier one lists, replies the parser rejects, and failure replies
ServerReplies ==
    { Response_new("success", <<DT>>),
      Response_new("success", <<DT \o Sp \o HI, <<"X">>, <<"M">> >>),
      Response_new("success", <<DT \o Sp \o HI, <<"M">> \o Sp \o <<"P">> >>),
      Response_new("success", <<DT \o Sp \o HI,
                                AUTH \o Sp \o <<"P">> \o Sp \o <<"L">>,
                                AUTH \o <<"=", "P">> >>),
      Response_new("success", <<DT \o Sp \o HI,
                                <<"X">> \o Sp \o <<"E">>,
                                <<"X", "=", "E">> >>),
      Response_new("success", << <<"d", "_", "t">> \o Sp \o HI, <<"X">> >>),
      Response_new("success", <<DT, <<"X">> \o Sp \o Tab>>),
      Response_new("failure", << <<"n", "o">> >>),
      Response_new("failure", <<DT \o Sp \o HI, <<"X">> >>),
      Response_new("failure", << <<"n", "o", "!">> >>) }

Init ==
    /\ ExecIdle
    /\ p_resp = Response_new("success", <<DT>>)
    /\ p_result = NotRun

\* ExecStart with the slip of chaining parse_response without the flush
ExecStart_without_flush ==
    /\ cmd # None
    /\ io_owner = "caller"
    /\ Len(history) < MaxExchanges
    /\ io_owner' = "exec"
    /\ seen_caps' = ehlo_data
    /\ reserved' = reserve_len(cmd.val.identity)
    /\ out_buffer' = Io_put(out_buffer, request_bytes(cmd.val.identity))
    /\ exec_calls' = Append(exec_calls, cmd.val)
    /\ cmd' = None
    /\ avail' = NotChecked
    /\ in_flight' = in_flight + 1
    /\ trace' = <<"write">>
    /\ outcome' = NoOutcome
    /\ pc' = "read"
    /\ UNCHANGED <<ehlo_data, wire, history, parseVars>>

\* ExecStart with the slip of a connection handle that is shared, not moved
\* (exec(self, io: &mut Io)): nothing keeps a second exec from starting
ExecStart_shared_io ==
    /\ cmd # None
    /\ io_owner \in {"caller", "exec"}
    /\ Len(history) < MaxExchanges
    /\ io_owner' = "exec"
    /\ seen_caps' = ehlo_data
    /\ reserved' = reserve_len(cmd.val.identity)
    /\ out_buffer' = Io_put(out_buffer, request_bytes(cmd.val.identity))
    /\ exec_calls' = Append(exec_calls, cmd.val)
    /\ cmd' = None
    /\ avail' = NotChecked
    /\ in_flight' = in_flight + 1
    /\ trace' = <<"write">>
    /\ outcome' = NoOutcome
    /\ pc' = "flush"
    /\ UNCHANGED <<ehlo_data, wire, history, parseVars>>

\* exec(self, io): the command value and the connection are moved in, the
\* request is written into the outgoing buffer and the future waits for the
\* flush
ExecStart ==
    /\ cmd # None
    /\ io_owner = "caller"
    /\ Len(history) < MaxExchanges
    /\ io_owner' = "exec"
    /\ seen_caps' = ehlo_data
    /\ reserved' = reserve_len(cmd.val.identity)
    /\ out_buffer' = Io_put(out_buffer, request_bytes(cmd.val.identity))
    /\ exec_calls' = Append(exec_calls, cmd.val)
    /\ cmd' = None
    /\ avail' = NotChecked
    /\ in_flight' = in_flight + 1
    /\ trace' = <<"write">>
    /\ outcome' = NoOutcome
    /\ pc' = "flush"
    /\ UNCHANGED <<ehlo_data, wire, history, parseVars>>

\* io.flush() completes: the future goes on to Io::parse_response
FlushOk ==
    /\ pc = "flush"
    /\ LET io == Io_flush(out_buffer, wire)
       IN  out_buffer' = io.out_buffer /\ wire' = io.wire
    /\ trace' = Append(trace, "flush")
    /\ pc' = "read"
    /\ UNCHANGED <<ehlo_data, io_owner, outcome, history, seen_caps, callerVars,
                   exec_calls, in_flight, reserved, parseVars>>

\* io.flush() fails: and_then passes the error on, the Io is dropped
FlushErr ==
    /\ pc = "flush"
    /\ outcome' = Fatal("io")
    /\ io_owner' = "dropped"
    /\ pc' = "idle"
    /\ in_flight' = in_flight - 1
    /\ UNCHANGED <<ehlo_data, out_buffer, wire, trace, history, seen_caps, callerVars,
                   exec_calls, reserved, parseVars>>

\* Io::parse_response completes with a reply: the closure runs in the same
\* poll, and the future resolves
ReadReply(reply) ==
    /\ pc = "read"
    /\ LET r == on_reply(ehlo_data, Io_parse_response(reply))
       IN  /\ ehlo_data' = r.caps
           /\ io_owner' = r.io
           /\ outcome' = r.outcome
           /\ trace' = Append(trace, "read") \o r.steps
    /\ history' = Append(history, reply)
    /\ pc' = "idle"
    /\ in_flight' = in_flight - 1
    /\ UNCHANGED <<out_buffer, wire, seen_caps, callerVars, exec_calls, reserved,
                   parseVars>>

\* ReadErr with the slip of an error that carries the Io back to the caller
ReadErr_hands_back ==
    /\ pc = "read"
    /\ outcome' = Fatal("io")
    /\ io_owner' = "caller"
    /\ pc' = "idle"
    /\ in_flight' = in_flight - 1
    /\ UNCHANGED <<ehlo_data, out_buffer, wire, trace, history, seen_caps, callerVars,
                   exec_calls, reserved, parseVars>>

\* ReadErr with the slip of a future that reports the error and goes on
\* waiting for a reply
ReadErr_keeps_waiting ==
    /\ pc = "read"
    /\ outcome = NoOutcome
    /\ outcome' = Fatal("io")
    /\ UNCHANGED <<ehlo_data, io_owner, pc, out_buffer, wire, trace, history, seen_caps,
                   callerVars, exec_calls, in_flight, reserved, parseVars>>

\* Io::parse_response fails: and_then passes the error on, the Io is dropped
ReadErr ==
    /\ pc = "read"
    /\ outcome' = Fatal("io")
    /\ io_owner' = "dropped"
    /\ pc' = "idle"
    /\ in_flight' = in_flight - 1
    /\ UNCHANGED <<ehlo_data, out_buffer, wire, trace, history, seen_caps, callerVars,
                   exec_calls, reserved, parseVars>>

\* Abandon with the slip of a connection that outlives the dropped future
Abandon_hands_back ==
    /\ pc \in {"flush", "read"}
    /\ outcome' = Abandoned
    /\ io_owner' = "caller"
    /\ pc' = "idle"
    /\ in_flight' = in_flight - 1
    /\ UNCHANGED <<ehlo_data, out_buffer, wire, trace, history, seen_caps, callerVars,
                   exec_calls, reserved, parseVars>>

\* The caller drops the future before it resolves: the Io it owns goes with it
Abandon ==
    /\ pc \in {"flush", "read"}
    /\ outcome' = Abandoned
    /\ io_owner' = "dropped"
    /\ pc' = "idle"
    /\ in_flight' = in_flight - 1
    /\ UNCHANGED <<ehlo_data, out_buffer, wire, trace, history, seen_caps, callerVars,
                   exec_calls, reserved, parseVars>>

\* Ehlo::new(identity): the caller makes a command value
NewCmd(identity) ==
    /\ cmd = None
    /\ io_owner # "dropped"
    /\ Len(exec_calls) < MaxExchanges
    /\ cmd' = Some(Ehlo_new(identity, Len(exec_calls) + 1))
    /\ UNCHANGED <<ehlo_data, io_owner, pc, out_buffer, wire, outcome, trace, history,
                   seen_caps, avail, exec_calls, in_flight, reserved, parseVars>>

\* cmd.check_cmd_availability(io.ehlo_data()): the caller asks whether the
\* command can run on the connection it holds
CheckCmdAvailability ==
    /\ cmd # None
    /\ io_owner = "caller"
    /\ avail' = [tag |-> "Checked",
                 result |-> check_cmd_availability(cmd.val, ehlo_data),
                 caps |-> ehlo_data]
    /\ UNCHANGED <<ehlo_data, io_owner, pc, out_buffer, wire, outcome, trace, history,
                   seen_caps, cmd, exec_calls, in_flight, reserved, parseVars>>

Next ==
    \/ \E identity \in ClientIds : NewCmd(identity)
    \/ CheckCmdAvailability
    \/ ExecStart
    \/ FlushOk
    \/ FlushErr
    \/ \E reply \in ServerReplies : ReadReply(reply)
    \/ ReadErr
    \/ Abandon

Spec == Init /\ [][Next]_vars

\* The flush completes, with a result or an error
FlushCompletes == FlushOk \/ FlushErr

\* The reply read completes, with a reply or an error
ReadCompletes == (\E reply \in ServerReplies : ReadReply(reply)) \/ ReadErr

\* The steps of a caller that polls every future it made until it resolves
LiveNext ==
    \/ \E identity \in ClientIds : NewCmd(identity)
    \/ CheckCmdAvailability
    \/ ExecStart
    \/ FlushCompletes
    \/ ReadCompletes

\* Every flush and every reply read eventually completes
LiveSpec ==
    /\ Init
    /\ [][LiveNext]_vars
    /\ WF_vars(FlushCompletes)
    /\ WF_vars(ReadCompletes)

---------------------------------------------------------------------------
(* Vocabulary of the statements about the exchange *)

Last(h) == h[Len(h)]

\* A success reply the parser accepts
CleanSuccess(reply) ==
    reply.code = "success" /\ parse_ehlo_response(reply).tag = "Ok"

\* NoCapabilities when no reply of h is a success reply that parses cleanly,
\* otherwise Greeted with the EhloData of the most recent such reply
ExpectedCaps(h) ==
    LET good == {i \in DOMAIN h : CleanSuccess(h[i])}
    IN  IF good = {}
        THEN None
        ELSE LET latest == CHOOSE i \in good : \A j \in good : j <= i
             IN  Some(parse_ehlo_response(h[latest]).val)

\* The exec that ran last has read its reply, which is then Last(history)
HasRead == \E i \in DOMAIN trace : trace[i] = "read"

Count(step) == Cardinality({i \in DOMAIN trace : trace[i] = step})

StepOrder == <<"write", "flush", "read", "parse", "commit">>

IsPrefix(s, t) == Len(s) <= Len(t) /\ s = SubSeq(t, 1, Len(s))

EndsWith(s, t) == Len(s) >= Len(t) /\ SubSeq(s, Len(s) - Len(t) + 1, Len(s)) = t

---------------------------------------------------------------------------
(* C1: the capability state is NoCapabilities exactly when no exchange so
   far read a success reply that parses cleanly, and otherwise holds exactly
   the EhloData parsed from the most recent such reply; an exchange whose
   reply is a failure reply or does not parse leaves the state as the
   command found it. *)
C1_CapabilityState ==
    /\ ehlo_data = ExpectedCaps(history)
    /\ (HasRead /\ ~CleanSuccess(Last(history))) => ehlo_data = seen_caps

\* Three exchanges: a reply that lists X, a later one that does not, then a
\* failure reply; the state is that of the second and does not hold X
C1_Witness ==
    /\ Len(history) = 3
    /\ CleanSuccess(history[1])
    /\ CleanSuccess(history[2])
    /\ history[3].code = "failure"
    /\ <<"X">> \in DOMAIN parse_ehlo_response(history[1]).val.caps
    /\ ehlo_data.tag = "Some"
    /\ <<"X">> \notin DOMAIN ehlo_data.val.caps
    /\ ehlo_data.val = parse_ehlo_response(history[2]).val

(* C2: when exec reads a success reply the parser accepts, the future
   resolves with that same reply in the success branch and hands the
   connection back, the parser's EhloData has been committed exactly once by
   then, and a command started afterwards finds that capability state. *)
C2_SuccessCommitted ==
    /\ (HasRead /\ CleanSuccess(Last(history))) =>
          /\ pc = "idle"
          /\ outcome = Reply("Ok", Last(history))
          /\ io_owner = "caller"
          /\ Count("commit") = 1
          /\ ehlo_data = Some(parse_ehlo_response(Last(history)).val)
    /\ (pc # "idle" /\ history # <<>> /\ CleanSuccess(Last(history))) =>
          seen_caps = Some(parse_ehlo_response(Last(history)).val)

\* A second command in flight after an exchange that committed capabilities
C2_Witness ==
    /\ pc = "read"
    /\ Len(history) = 1
    /\ CleanSuccess(history[1])
    /\ seen_caps.tag = "Some"
    /\ DOMAIN seen_caps.val.caps # {}

(* C3: when the reply read is a failure reply, the future resolves with
   that same reply in the error branch and hands the connection back, the
   parser has not run, and the capability state is as the command found
   it. *)
C3_FailureReply ==
    (HasRead /\ Last(history).code = "failure") =>
        /\ pc = "idle"
        /\ outcome = Reply("Err", Last(history))
        /\ io_owner = "caller"
        /\ Count("parse") = 0
        /\ Count("commit") = 0
        /\ ehlo_data = seen_caps

\* A failure reply, which the parser would accept, read on a connection
\* that is already greeted
C3_Witness ==
    /\ HasRead
    /\ Last(history).code = "failure"
    /\ parse_ehlo_response(Last(history)).tag = "Ok"
    /\ ehlo_data.tag = "Some"
    /\ outcome = Reply("Err", Last(history))

(* C4: when the reply read is a success reply the parser rejects, the
   future resolves with a fatal error and neither reply branch, the
   connection is not handed back, no commit is made and the capability state
   is as the command found it. *)
C4_SyntaxErrorFatal ==
    (/\ HasRead
     /\ Last(history).code = "success"
     /\ parse_ehlo_response(Last(history)).tag = "Err")
    => /\ pc = "idle"
       /\ outcome = Fatal(parse_ehlo_response(Last(history)).err)
       /\ io_owner = "dropped"
       /\ Count("commit") = 0
       /\ ehlo_data = seen_caps

\* On a greeted connection, a success reply whose second capability line is
\* malformed after a well-formed first one
C4_Witness ==
    /\ HasRead
    /\ Last(history).code = "success"
    /\ Len(Last(history).msg) = 3
    /\ parse_ehlo_response(Last(history)) = Err("EsmtpKeyword")
    /\ outcome = Fatal("EsmtpKeyword")
    /\ ehlo_data.tag = "Some"
    /\ io_owner = "dropped"

(* C5: the steps of an exec happen in the order write, flush, read, parse,
   commit: while the flush is awaited only the write has happened and the
   whole request is in the buffer, the reply is awaited only after the flush
   has completed and emptied the buffer onto the transport, and a commit is
   made only after a reply has been read and parsed. *)
C5_StepOrder ==
    /\ IsPrefix(trace, StepOrder)
    /\ pc = "flush" => (trace = <<"write">> /\ EndsWith(out_buffer, CRLF))
    /\ pc = "read" =>
          (trace = <<"write", "flush">> /\ out_buffer = <<>> /\ EndsWith(wire, CRLF))
    /\ Count("commit") > 0 => (HasRead /\ Count("flush") = 1 /\ Count("parse") = 1)

\* An exec that went through all five steps
C5_Witness == trace = StepOrder

---------------------------------------------------------------------------
(* C11: the bytes exec appends to the outgoing buffer are "EHLO ", the
   identity's text and CR LF, nothing else, for a Domain and for an
   AddressLiteral identity, and their number is the 7 + length(identity)
   bytes reserved; the buffer and the transport together hold exactly the
   requests of the execs so far. *)
ExpectedRequest(ehlo) ==
    <<"E", "H", "L", "O", " ">> \o ehlo.identity.text \o <<"\r", "\n">>

RECURSIVE ExpectedRequests(_)
ExpectedRequests(calls) ==
    IF calls = <<>> THEN <<>>
    ELSE ExpectedRequest(Head(calls)) \o ExpectedRequests(Tail(calls))

C11_RequestBytes ==
    /\ wire \o out_buffer = ExpectedRequests(exec_calls)
    /\ pc = "flush" =>
          /\ out_buffer = ExpectedRequest(Last(exec_calls))
          /\ Len(out_buffer) = reserved
    /\ exec_calls # <<>> =>
          reserved = 7 + Len(Last(exec_calls).identity.text)

\* The request of a second command, with an address literal, in the buffer
C11_Witness ==
    /\ pc = "flush"
    /\ Len(exec_calls) = 2
    /\ exec_calls[1].identity.kind = "Domain"
    /\ exec_calls[2].identity.kind = "AddressLiteral"
    /\ wire # <<>>
    /\ out_buffer = ExpectedRequest(exec_calls[2])

(* C12: check_cmd_availability succeeds whatever the session's capability
   state, None or a negotiated EhloData; it never reports a missing
   capability, and the connection and the command are as they were. *)
C12_AlwaysAvailable ==
    avail.tag = "Checked" =>
        /\ avail.result = Ok(<<>>)
        /\ avail.result # Err("MissingCapabilities")
        /\ avail.caps = ehlo_data
        /\ cmd # None
        /\ io_owner = "caller"
        /\ pc = "idle"

\* The check made on a greeted session that lists capabilities
C12_Witness ==
    /\ avail.tag = "Checked"
    /\ avail.caps.tag = "Some"
    /\ DOMAIN avail.caps.val.caps # {}
    /\ avail.result = Ok(<<>>)

(* C13: at most one exec is in flight on the connection, it is in flight
   exactly while the exec future holds the connection, and no Ehlo value is
   executed twice: the values exec was called on are pairwise different and
   the value the caller holds is none of them. *)
C13_SingleOwner ==
    /\ in_flight \in {0, 1}
    /\ in_flight = 1 <=> io_owner = "exec"
    /\ in_flight = 1 <=> pc # "idle"
    /\ \A i, j \in DOMAIN exec_calls : i # j => exec_calls[i].id # exec_calls[j].id
    /\ cmd # None => \A i \in DOMAIN exec_calls : exec_calls[i].id # cmd.val.id

\* The caller holds a second command value while the first exec awaits its
\* reply
C13_Witness ==
    /\ in_flight = 1
    /\ pc = "read"
    /\ cmd # None
    /\ Len(exec_calls) = 1

(* C14: once the future is abandoned the connection is gone for good: it is
   not handed back, no commit was made, the capability state is as the
   command found it, and no later step writes to, reads from or commits on
   that connection. *)
C14_AbandonedIsDiscarded ==
    /\ [](outcome = Abandoned =>
            /\ io_owner = "dropped"
            /\ pc = "idle"
            /\ in_flight = 0
            /\ Count("read") = 0
            /\ Count("commit") = 0
            /\ ehlo_data = seen_caps)
    /\ [][io_owner = "dropped" =>
            /\ io_owner' = "dropped"
            /\ UNCHANGED <<ehlo_data, out_buffer, wire, history, exec_calls, trace,
                           pc, outcome>>]_vars

\* A greeted connection abandoned after the request went out
C14_Witness ==
    /\ outcome = Abandoned
    /\ trace = <<"write", "flush">>
    /\ EndsWith(wire, ExpectedRequest(Last(exec_calls)))
    /\ ehlo_data.tag = "Some"
    /\ io_owner = "dropped"

(* C17: when the flush fails the future resolves to the error with only the
   write done, and when the read fails it resolves to the error with only
   the write and the flush done; no reply was read, no parse and no commit
   was made, the capability state is as the command found it and the
   connection is not handed back. *)
C17_IoErrorFatal ==
    outcome = Fatal("io") =>
        /\ pc = "idle"
        /\ io_owner = "dropped"
        /\ trace \in {<<"write">>, <<"write", "flush">>}
        /\ trace = <<"write">> => (out_buffer # <<>> /\ Len(history) = Len(exec_calls) - 1)
        /\ trace = <<"write", "flush">> =>
              (out_buffer = <<>> /\ Len(history) = Len(exec_calls) - 1)
        /\ ehlo_data = seen_caps
        /\ ehlo_data = ExpectedCaps(history)

\* The read fails on a greeted connection
C17_Witness ==
    /\ outcome = Fatal("io")
    /\ trace = <<"write", "flush">>
    /\ ehlo_data.tag = "Some"
    /\ io_owner = "dropped"

(* C18: when every flush and every reply read completes, each exec ends,
   in exactly one of three ways: the success reply returned with the
   capabilities committed, the failure reply returned, or a fatal error. The
   future waits only for the flush and for the reply read: once the reply
   is read the exec has ended, parse and commit included. *)
SuccessEnd ==
    /\ outcome.tag = "Reply"
    /\ outcome.branch = "Ok"
    /\ Count("commit") = 1
    /\ ehlo_data = Some(parse_ehlo_response(outcome.response).val)

FailureEnd ==
    /\ outcome.tag = "Reply"
    /\ outcome.branch = "Err"
    /\ Count("commit") = 0

FatalEnd ==
    /\ outcome.tag = "Fatal"
    /\ Count("commit") = 0

EndedOnce ==
    /\ pc = "idle"
    /\ Cardinality({e \in {"success", "failure", "fatal"} :
                       \/ e = "success" /\ SuccessEnd
                       \/ e = "failure" /\ FailureEnd
                       \/ e = "fatal" /\ FatalEnd}) = 1

C18_ExecEnds ==
    /\ [](pc \in {"idle", "flush", "read"})
    /\ [](pc # "idle" => (outcome = NoOutcome /\ ~HasRead))
    /\ [](HasRead => EndedOnce)
    /\ (pc # "idle") ~> EndedOnce

\* A second exec that ended with the success reply and one commit
C18_Witness ==
    /\ pc = "idle"
    /\ Len(exec_calls) = 2
    /\ Len(history) = 2
    /\ SuccessEnd
    /\ ~FailureEnd
    /\ ~FatalEnd

---------------------------------------------------------------------------
(* Vocabulary of the statements about the parser *)

\* The text of s before the first occurrence of the character c (all of s
\* when c does not occur)
Before(s, c) ==
    LET n == CHOOSE k \in 0..Len(s) :
                 /\ \A j \in 1..k : s[j] # c
                 /\ (k < Len(s) => s[k + 1] = c)
    IN  SubSeq(s, 1, n)

ParseDone == p_result # NotRun

Lines == p_resp.msg

\* The indices of the lines after the first
CapIdx == 2..Len(Lines)

Keyword(line) == Before(line, " ")

\* The tokens that follow the keyword on a line
Params(line) == Tail(Split(line, " "))

ValidKeyword(line) == Capability_from_str(Keyword(line)).tag = "Ok"

ValidParams(line) ==
    \A j \in DOMAIN Params(line) : EhloParam_parse(Params(line)[j]).tag = "Ok"

WellFormed(line) == ValidKeyword(line) /\ ValidParams(line)

\* The malformed duplicate AUTH=.. line
MalformedAuth(line) ==
    ~ValidKeyword(line) /\ ToUpper(Before(Keyword(line), "=")) = AUTH

MalformedOther(line) ==
    ~ValidKeyword(line) /\ ToUpper(Before(Keyword(line), "=")) # AUTH

ValidFirstLine == Domain_parse(Before(Head(Lines), " ")).tag = "Ok"

\* The reply without its malformed AUTH lines
WithoutMalformedAuth(response) ==
    IF response.msg = <<>> THEN response
    ELSE [response EXCEPT !.msg =
            <<Head(response.msg)>> \o
            SelectSeq(Tail(response.msg), LAMBDA l : ~MalformedAuth(l))]

\* The reply with its first line cut at the first space
WithoutGreeting(response) ==
    IF response.msg = <<>> THEN response
    ELSE [response EXCEPT !.msg =
            <<Before(Head(response.msg), " ")>> \o Tail(response.msg)]

---------------------------------------------------------------------------
(* C6: a line whose keyword is invalid and whose text before the first "="
   is AUTH ignoring case is discarded whole: the parser returns what it
   returns for the reply without these lines (so the line adds no entry,
   leaves the AUTH entry of a well-formed line alone, and its parameters are
   not validated), and a reply with a valid domain whose capability lines
   are all of this kind parses to an empty capability map. *)
C6_MalformedAuthDiscarded ==
    ParseDone =>
        /\ p_result = parse_ehlo_response(WithoutMalformedAuth(p_resp))
        /\ (/\ Lines # <<>>
            /\ ValidFirstLine
            /\ \A i \in CapIdx : MalformedAuth(Lines[i]))
           => p_result = Ok(EhloData_new(Before(Head(Lines), " "), EmptyCaps))

\* A parsed reply with a malformed AUTH line and a well-formed AUTH line
\* whose entry is in the map with its own parameters
C6_Witness ==
    /\ ParseDone
    /\ p_result.tag = "Ok"
    /\ \E i, j \in CapIdx :
          /\ MalformedAuth(Lines[i])
          /\ WellFormed(Lines[j])
          /\ ToUpper(Keyword(Lines[j])) = AUTH
          /\ Params(Lines[j]) # <<>>
          /\ AUTH \in DOMAIN p_result.val.caps
          /\ p_result.val.caps[AUTH] = Params(Lines[j])

(* C7: a line whose keyword is invalid and whose text before the first "="
   is not AUTH ignoring case makes the parser return an error and no
   EhloData; the error is EsmtpKeyword when the first line and the lines
   before that line are well-formed (or discarded AUTH lines). *)
C7_MalformedOtherFails ==
    (ParseDone /\ Lines # <<>>) =>
        \A i \in CapIdx :
            MalformedOther(Lines[i]) =>
                /\ p_result.tag = "Err"
                /\ (/\ ValidFirstLine
                    /\ \A j \in 2..(i - 1) :
                          WellFormed(Lines[j]) \/ MalformedAuth(Lines[j]))
                   => p_result = Err("EsmtpKeyword")

\* A well-formed line for X followed by the malformed line X=E
C7_Witness ==
    /\ ParseDone
    /\ Len(Lines) = 3
    /\ ValidFirstLine
    /\ WellFormed(Lines[2])
    /\ MalformedOther(Lines[3])
    /\ Keyword(Lines[2]) = Before(Keyword(Lines[3]), "=")
    /\ p_result = Err("EsmtpKeyword")

(* C8: the domain is the first line up to its first space and the text
   after that space does not change the result; a token that is no Domain
   gives SyntaxError::Domain; a reply of one line with a valid domain gives
   an empty capability map. *)
C8_DomainFromFirstLine ==
    (ParseDone /\ Lines # <<>>) =>
        /\ p_result.tag = "Ok" => p_result.val.domain = Before(Head(Lines), " ")
        /\ p_result = parse_ehlo_response(WithoutGreeting(p_resp))
        /\ ~ValidFirstLine => p_result = Err("Domain")
        /\ (ValidFirstLine /\ Len(Lines) = 1)
           => p_result = Ok(EhloData_new(Before(Head(Lines), " "), EmptyCaps))

\* A parsed reply whose first line holds a greeting after the domain
C8_Witness ==
    /\ ParseDone
    /\ Lines # <<>>
    /\ Before(Head(Lines), " ") # Head(Lines)
    /\ p_result.tag = "Ok"
    /\ p_result.val.domain = Before(Head(Lines), " ")

(* C9: when the lines after the first all are well-formed and their
   keywords differ pairwise ignoring case (and the first line holds a valid
   domain), the map has exactly one entry per line, and the entry of a line
   is the sequence of tokens after its keyword, in their order. *)
C9_OneEntryPerLine ==
    (/\ ParseDone
     /\ Lines # <<>>
     /\ ValidFirstLine
     /\ \A i \in CapIdx : WellFormed(Lines[i])
     /\ \A i, j \in CapIdx :
           i # j => ToUpper(Keyword(Lines[i])) # ToUpper(Keyword(Lines[j])))
    => /\ p_result.tag = "Ok"
       /\ DOMAIN p_result.val.caps = {ToUpper(Keyword(Lines[i])) : i \in CapIdx}
       /\ Cardinality(DOMAIN p_result.val.caps) = Len(Lines) - 1
       /\ \A i \in CapIdx :
             p_result.val.caps[ToUpper(Keyword(Lines[i]))] = Params(Lines[i])

\* A parsed reply with a line of two different parameters
C9_Witness ==
    /\ ParseDone
    /\ p_result.tag = "Ok"
    /\ \E i \in CapIdx :
          /\ Len(Params(Lines[i])) = 2
          /\ Params(Lines[i])[1] # Params(Lines[i])[2]
          /\ p_result.val.caps[ToUpper(Keyword(Lines[i]))] = Params(Lines[i])

(* C10: in a parsed reply the map holds one entry per keyword of the
   well-formed lines, keywords taken ignoring case, and the entry of a
   keyword is the parameter list of the last well-formed line that names
   it. *)
C10_LastOccurrenceWins ==
    (ParseDone /\ p_result.tag = "Ok") =>
        LET wf == {i \in CapIdx : WellFormed(Lines[i])}
            caps == p_result.val.caps
        IN  /\ DOMAIN caps = {ToUpper(Keyword(Lines[i])) : i \in wf}
            /\ Cardinality(DOMAIN caps)
                 = Cardinality({ToUpper(Keyword(Lines[i])) : i \in wf})
            /\ \A i \in wf :
                  (\A j \in wf :
                      j > i => ToUpper(Keyword(Lines[j])) # ToUpper(Keyword(Lines[i])))
                  => caps[ToUpper(Keyword(Lines[i]))] = Params(Lines[i])

\* A parsed reply naming one keyword on two lines, in different letter case
\* and with different parameter lists
C10_Witness ==
    /\ ParseDone
    /\ p_result.tag = "Ok"
    /\ \E i, j \in CapIdx :
          /\ i < j
          /\ WellFormed(Lines[i]) /\ WellFormed(Lines[j])
          /\ Keyword(Lines[i]) # Keyword(Lines[j])
          /\ ToUpper(Keyword(Lines[i])) = ToUpper(Keyword(Lines[j]))
          /\ Params(Lines[i]) # Params(Lines[j])
          /\ Cardinality(DOMAIN p_result.val.caps) = 1
          /\ p_result.val.caps[ToUpper(Keyword(Lines[j]))] = Params(Lines[j])

---------------------------------------------------------------------------
(* Vocabulary of the statements about the order of the checks *)

\* A line that ends the parse: neither well-formed nor a discarded AUTH line
Violates(line) == ~(WellFormed(line) \/ MalformedAuth(line))

\* Line i is the first line after the first that ends the parse
FirstViolation(i) ==
    Violates(Lines[i]) /\ \A j \in 2..(i - 1) : ~Violates(Lines[j])

\* The reply cut after its line i
UpToLine(response, i) == [response EXCEPT !.msg = SubSeq(response.msg, 1, i)]

\* The line holds an empty token after its keyword: it ends with a space or
\* holds two spaces in a row
HasEmptyParam(line) ==
    \E k \in DOMAIN line :
        line[k] = " " /\ (k = Len(line) \/ line[k + 1] = " ")

\* The line is empty or starts with a space
StartsEmpty(line) == line = <<>> \/ line[1] = " "

(* C16: the parser reports the first violation in reading order and looks
   at nothing after it: an invalid domain gives SyntaxError::Domain whatever
   the later lines hold; otherwise the first line that ends the parse
   decides, with EsmtpKeyword when its keyword is invalid (whatever its
   parameters) and EsmtpValue when its keyword is valid and a parameter is
   not; the result is that of the reply cut after that line, and no EhloData
   is returned. *)
C16_FirstViolationReported ==
    (ParseDone /\ Lines # <<>>) =>
        /\ ~ValidFirstLine =>
              /\ p_result = Err("Domain")
              /\ p_result = parse_ehlo_response(UpToLine(p_resp, 1))
        /\ ValidFirstLine =>
              \A i \in CapIdx :
                  FirstViolation(i) =>
                      /\ p_result = IF ValidKeyword(Lines[i])
                                    THEN Err("EsmtpValue")
                                    ELSE Err("EsmtpKeyword")
                      /\ p_result = parse_ehlo_response(UpToLine(p_resp, i))

\* A line with a valid keyword and an invalid parameter, followed by a line
\* with an invalid keyword: the value error is reported
C16_Witness ==
    /\ ParseDone
    /\ Len(Lines) = 3
    /\ ValidFirstLine
    /\ ValidKeyword(Lines[2])
    /\ ~ValidParams(Lines[2])
    /\ MalformedOther(Lines[3])
    /\ p_result = Err("EsmtpValue")

(* C19: for a Response of at least one line the parser returns an EhloData
   or one of the SyntaxErrors; for a Response of no line it returns neither:
   it panics, and only then. *)
C19_NoLinePanics ==
    ParseDone =>
        /\ Lines = <<>> <=> p_result = Panic
        /\ Lines # <<>> =>
              \/ p_result.tag = "Ok"
              \/ /\ p_result.tag = "Err"
                 /\ p_result.err \in {"Domain", "EsmtpKeyword", "EsmtpValue"}

\* The parser run on the Response of no line
C19_Witness ==
    /\ ParseDone
    /\ Lines = <<>>
    /\ p_result = Panic
    /\ p_result # Err("Domain")

(* C20: empty tokens are not skipped. Where the first line and the lines
   before are in order, a line that is empty or starts with a space fails
   with EsmtpKeyword, and a line with a valid keyword that ends with a space
   or holds two spaces in a row fails with the value error, the empty text
   being no EhloParam. *)
C20_EmptyTokensKept ==
    (ParseDone /\ Lines # <<>> /\ ValidFirstLine) =>
        \A i \in CapIdx :
            (\A j \in 2..(i - 1) : ~Violates(Lines[j])) =>
                /\ StartsEmpty(Lines[i]) => p_result = Err("EsmtpKeyword")
                /\ (/\ ~StartsEmpty(Lines[i])
                    /\ ValidKeyword(Lines[i])
                    /\ HasEmptyParam(Lines[i])
                    /\ EhloParam_parse(<<>>).tag = "Err")
                   => p_result = Err("EsmtpValue")

\* A keyword followed by a valid parameter and a trailing space
C20_Witness ==
    /\ ParseDone
    /\ Len(Lines) = 2
    /\ ValidFirstLine
    /\ ValidKeyword(Lines[2])
    /\ Len(Lines[2]) > 2
    /\ Lines[2][Len(Lines[2])] = " "
    /\ Lines[2][Len(Lines[2]) - 1] # " "
    /\ p_result = Err("EsmtpValue")

=============================================================================
